---- MODULE Spec2Model ----
(***************************************************************************)
(* Weather-Chat-Bot backend (backend/app/main.py): the rule layer          *)
(* (classify_query_intent, extract_city_and_activity,                      *)
(* analyze_activity_suitability) and the HTTP entry points that call the   *)
(* weather provider and the text-generation service; and the agent tools   *)
(* of backend/app/weather_tools_fixed.py (FixedWeatherTools).              *)
(*                                                                         *)
(* Texts are TLA+ strings; Python's str operations (lower, strip, `in`)    *)
(* are modelled character by character with SubSeq and \o.                *)
(* Python dicts are functions; a key that may be missing is a key that is  *)
(* or is not in the DOMAIN.                                                *)
(***************************************************************************)
EXTENDS Integers, Sequences, FiniteSets, TLC

VARIABLES
    pc,            \* position of the operation under analysis
    activity,      \* analyze_activity_suitability: the activity argument
    weather_data,  \* analyze_activity_suitability: the weather_data argument
    analysis,      \* analyze_activity_suitability: the returned dict
    message,       \* classify_query_intent / extract_city_and_activity: the argument
    intent,        \* classify_query_intent: the returned category
    extraction,    \* extract_city_and_activity: the returned tuple
    endpoint,      \* the entry point or tool that served the last request
    request,       \* the last request: its messages, city or location, and what the collaborators did
    outcome,       \* what was given back: a returned body or text, or a raised exception
    calls          \* the calls made while serving it, in order

vars == <<pc, activity, weather_data, analysis, message, intent, extraction,
          endpoint, request, outcome, calls>>

scorerVars == <<activity, weather_data, analysis>>
textVars == <<message, intent, extraction>>
chatVars == <<endpoint, request, outcome, calls>>

(***************************************************************************)
(* Python dict helpers                                                     *)
(***************************************************************************)
NoKeys == [k \in {} |-> 0]

Has(d, k) == k \in DOMAIN d

Get(d, k, default) == IF k \in DOMAIN d THEN d[k] ELSE default

(***************************************************************************)
(* Python str helpers                                                      *)
(***************************************************************************)
UpperToLower ==
    [A |-> "a", B |-> "b", C |-> "c", D |-> "d", E |-> "e", F |-> "f", G |-> "g",
     H |-> "h", I |-> "i", J |-> "j", K |-> "k", L |-> "l", M |-> "m", N |-> "n",
     O |-> "o", P |-> "p", Q |-> "q", R |-> "r", S |-> "s", T |-> "t", U |-> "u",
     V |-> "v", W |-> "w", X |-> "x", Y |-> "y", Z |-> "z"]

LowerChar(c) == IF c \in DOMAIN UpperToLower THEN UpperToLower[c] ELSE c

RECURSIVE lower(_)
lower(s) ==
    IF s = "" THEN ""
    ELSE LowerChar(SubSeq(s, 1, 1)) \o lower(SubSeq(s, 2, Len(s)))

\* Python's `sub in s`
Contains(s, sub) ==
    \E i \in 1..(Len(s) - Len(sub) + 1) : SubSeq(s, i, i + Len(sub) - 1) = sub

\* Python's any(k in s for k in keywords)
any_in(keywords, s) == \E i \in 1..Len(keywords) : Contains(s, keywords[i])

Whitespace == {" "}

RECURSIVE lstrip(_)
lstrip(s) ==
    IF s # "" /\ SubSeq(s, 1, 1) \in Whitespace
    THEN lstrip(SubSeq(s, 2, Len(s)))
    ELSE s

RECURSIVE rstrip(_)
rstrip(s) ==
    IF s # "" /\ SubSeq(s, Len(s), Len(s)) \in Whitespace
    THEN rstrip(SubSeq(s, 1, Len(s) - 1))
    ELSE s

strip(s) == rstrip(lstrip(s))

(***************************************************************************)
(* Module-level tables                                                     *)
(***************************************************************************)
ACTIVITIES ==
    [cricket  |-> [optimal_temp |-> <<20, 35>>, max_wind |-> 15,
                   precipitation_tolerance |-> 0, humidity_preference |-> "moderate",
                   outdoor |-> TRUE, category |-> "sports"],
     football |-> [optimal_temp |-> <<15, 30>>, max_wind |-> 20,
                   precipitation_tolerance |-> 5, humidity_preference |-> "moderate",
                   outdoor |-> TRUE, category |-> "sports"],
     running  |-> [optimal_temp |-> <<10, 25>>, max_wind |-> 25,
                   precipitation_tolerance |-> 0, humidity_preference |-> "low",
                   outdoor |-> TRUE, category |-> "fitness"],
     cycling  |-> [optimal_temp |-> <<15, 30>>, max_wind |-> 20,
                   precipitation_tolerance |-> 0, humidity_preference |-> "moderate",
                   outdoor |-> TRUE, category |-> "fitness"],
     walking  |-> [optimal_temp |-> <<10, 35>>, max_wind |-> 30,
                   precipitation_tolerance |-> 10, humidity_preference |-> "any",
                   outdoor |-> TRUE, category |-> "leisure"],
     picnic   |-> [optimal_temp |-> <<20, 30>>, max_wind |-> 15,
                   precipitation_tolerance |-> 0, humidity_preference |-> "low",
                   outdoor |-> TRUE, category |-> "leisure"],
     shopping |-> [optimal_temp |-> <<-10, 45>>, max_wind |-> 100,
                   precipitation_tolerance |-> 100, humidity_preference |-> "any",
                   outdoor |-> FALSE, category |-> "indoor"]]

\* ACTIVITIES.keys(): a dict iterates in insertion order
ACTIVITIES_keys ==
    <<"cricket", "football", "running", "cycling", "walking", "picnic", "shopping">>

QUERY_TYPES ==
    [BASIC_WEATHER      |-> <<"weather", "temperature", "temp", "hot", "cold", "raining", "sunny">>,
     ACTIVITY_PLANNING  |-> <<"play", "go", "do", "can i", "should i", "good for", "suitable">>,
     CLOTHING_ADVICE    |-> <<"wear", "dress", "clothing", "clothes", "outfit">>,
     TRAVEL_PLANNING    |-> <<"visit", "travel", "trip", "vacation", "holiday">>,
     COMFORT_ASSESSMENT |-> <<"comfortable", "pleasant", "nice", "good weather", "bad weather">>]

COMMON_CITIES ==
    <<"Tokyo", "New York", "London", "Paris", "Sydney", "Berlin", "Rome", "Moscow",
      "Beijing", "Shanghai", "Delhi", "Mumbai", "Cairo", "Rio", "Toronto", "Chicago",
      "Los Angeles", "San Francisco", "Miami", "Seattle", "Boston", "Dubai", "Singapore",
      "Bangkok", "Hong Kong", "Seoul", "Amsterdam", "Madrid", "Barcelona", "Mexico City",
      "Stockholm", "Oslo", "Copenhagen", "Helsinki", "Vienna", "Prague", "Budapest",
      "Warsaw", "Athens", "Istanbul", "Jerusalem", "Nairobi", "Cape Town", "Marrakech",
      "Dublin", "Edinburgh", "Glasgow", "Manchester", "Liverpool", "Birmingham", "Brussels",
      "Zurich", "Geneva", "Milan", "Florence", "Naples", "Venice", "Munich", "Frankfurt",
      "Hamburg", "Cologne", "Dusseldorf", "Lisbon", "Porto", "Sao Paulo", "Buenos Aires",
      "Lima", "Santiago", "Bogota", "Caracas", "Panama City", "Havana", "Montreal", "Vancouver",
      "Calgary", "Ottawa", "Melbourne", "Brisbane", "Perth", "Auckland", "Wellington",
      "Jakarta", "Manila", "Kuala Lumpur", "Hanoi", "Ho Chi Minh City", "Taipei", "Kyoto",
      "Osaka", "Sapporo", "Yokohama", "Hiroshima", "St Petersburg", "Vladivostok", "Kiev",
      "Tehran", "Baghdad", "Riyadh", "Mecca", "Muscat", "Doha", "Abu Dhabi", "Casablanca",
      "Surat", "Ahmedabad", "Pune", "Kolkata", "Chennai", "Bangalore", "Hyderabad", "Jaipur">>

(***************************************************************************)
(* analyze_activity_suitability                                            *)
(***************************************************************************)
TempBuffer == 5
TempPoorPenalty == 40
TempModeratePenalty == 15
WindPenalty == 25
PrecipitationPenalty == 50
HumidityPenalty == 10
HumidityLowMax == 70
HumidityModerateMax == 80
HumidityModerateMin == 30
ExcellentScore == 85
GoodScore == 70
ModerateScore == 50
SuitableScore == 50
ConfidenceCap == 100

Min(a, b) == IF a <= b THEN a ELSE b

\* wind_speed = current["wind"]["speed"] if "wind" in current else 0
wind_speed_of(current) == IF Has(current, "wind") THEN current.wind.speed ELSE 0

\* precipitation: rain["1h"] when "rain" is present, else snow["1h"], else 0
precipitation_of(current) ==
    IF Has(current, "rain") THEN Get(current.rain, "1h", 0)
    ELSE IF Has(current, "snow") THEN Get(current.snow, "1h", 0)
    ELSE 0

\* mutant: the buffer zone excludes the temperature exactly TempBuffer outside the range
temperature_factor_BufferExclusive(temp, req) ==
    LET temp_min == req.optimal_temp[1]
        temp_max == req.optimal_temp[2]
    IN  IF temp_min <= temp /\ temp <= temp_max
        THEN [factor |-> "temperature", value |-> ToString(temp) \o "°C", impact |-> "excellent",
              score |-> 100, penalty |-> 0]
        ELSE IF temp <= temp_min - TempBuffer \/ temp >= temp_max + TempBuffer
        THEN [factor |-> "temperature", value |-> ToString(temp) \o "°C", impact |-> "poor",
              score |-> 30, penalty |-> TempPoorPenalty]
        ELSE [factor |-> "temperature", value |-> ToString(temp) \o "°C", impact |-> "moderate",
              score |-> 70, penalty |-> TempModeratePenalty]

temperature_factor(temp, req) ==
    LET temp_min == req.optimal_temp[1]
        temp_max == req.optimal_temp[2]
    IN  IF temp_min <= temp /\ temp <= temp_max
        THEN [factor |-> "temperature", value |-> ToString(temp) \o "°C", impact |-> "excellent",
              score |-> 100, penalty |-> 0]
        ELSE IF temp < temp_min - TempBuffer \/ temp > temp_max + TempBuffer
        THEN [factor |-> "temperature", value |-> ToString(temp) \o "°C", impact |-> "poor",
              score |-> 30, penalty |-> TempPoorPenalty]
        ELSE [factor |-> "temperature", value |-> ToString(temp) \o "°C", impact |-> "moderate",
              score |-> 70, penalty |-> TempModeratePenalty]

wind_factor(wind_speed, req) ==
    IF wind_speed <= req.max_wind
    THEN [factor |-> "wind", value |-> ToString(wind_speed) \o " m/s", impact |-> "good",
          score |-> 90, penalty |-> 0]
    ELSE [factor |-> "wind", value |-> ToString(wind_speed) \o " m/s", impact |-> "poor",
          score |-> 40, penalty |-> WindPenalty]

\* mutant: precipitation above the tolerance costs as little as humidity does
precipitation_factor_SmallPenalty(precipitation, req) ==
    IF precipitation <= req.precipitation_tolerance
    THEN [factor |-> "precipitation", value |-> ToString(precipitation) \o "mm",
          impact |-> "excellent", score |-> 100, penalty |-> 0]
    ELSE [factor |-> "precipitation", value |-> ToString(precipitation) \o "mm",
          impact |-> "poor", score |-> 20, penalty |-> HumidityPenalty]

precipitation_factor(precipitation, req) ==
    IF precipitation <= req.precipitation_tolerance
    THEN [factor |-> "precipitation", value |-> ToString(precipitation) \o "mm",
          impact |-> "excellent", score |-> 100, penalty |-> 0]
    ELSE [factor |-> "precipitation", value |-> ToString(precipitation) \o "mm",
          impact |-> "poor", score |-> 20, penalty |-> PrecipitationPenalty]

humidity_factor(humidity, req) ==
    LET moderate ==
            \/ req.humidity_preference = "low" /\ humidity > HumidityLowMax
            \/ /\ req.humidity_preference = "moderate"
               /\ (humidity > HumidityModerateMax \/ humidity < HumidityModerateMin)
    IN  [factor |-> "humidity", value |-> ToString(humidity) \o "%",
         impact |-> IF moderate THEN "moderate" ELSE "good",
         score |-> IF moderate THEN 70 ELSE 85,
         penalty |-> IF moderate THEN HumidityPenalty ELSE 0]

\* mutant: the excellent threshold is exclusive
recommendation_of_StrictExcellent(overall_score) ==
    IF overall_score > ExcellentScore THEN "excellent"
    ELSE IF overall_score >= GoodScore THEN "good"
    ELSE IF overall_score >= ModerateScore THEN "moderate"
    ELSE "poor"

recommendation_of(overall_score) ==
    IF overall_score >= ExcellentScore THEN "excellent"
    ELSE IF overall_score >= GoodScore THEN "good"
    ELSE IF overall_score >= ModerateScore THEN "moderate"
    ELSE "poor"

confidence_of(overall_score) == Min(overall_score, ConfidenceCap)

StripPenalty(f) == [factor |-> f.factor, value |-> f.value, impact |-> f.impact, score |-> f.score]

analyze_activity_suitability(data, act, time_context) ==
    IF act \notin DOMAIN ACTIVITIES
    THEN [suitable |-> FALSE, reason |-> "Activity not recognized"]
    ELSE
    LET activity_req == ACTIVITIES[act]
        current == data.current
        tf == temperature_factor(current.main.temp, activity_req)
        wf == wind_factor(wind_speed_of(current), activity_req)
        pf == precipitation_factor(precipitation_of(current), activity_req)
        hf == humidity_factor(current.main.humidity, activity_req)
        overall_score == (((100 - tf.penalty) - wf.penalty) - pf.penalty) - hf.penalty
    IN  [suitable |-> overall_score >= SuitableScore,
         recommendation |-> recommendation_of(overall_score),
         confidence |-> confidence_of(overall_score),
         factors |-> <<StripPenalty(tf), StripPenalty(wf), StripPenalty(pf), StripPenalty(hf)>>,
         overall_score |-> overall_score,
         weather_description |-> current.weather[1].description]

(***************************************************************************)
(* Inputs of the scorer.  Every comparison of the scorer is between a      *)
(* reading and an integer threshold of the activity profile, so a reading  *)
(* between two integers is scored like the integer next to it on the side  *)
(* away from the threshold: integer readings at and around each threshold  *)
(* of the profile produce every outcome of every comparison.               *)
(***************************************************************************)
Margin == 1

UnknownActivity == "golf"

ScorerActivities == DOMAIN ACTIVITIES \cup {UnknownActivity}

ProfileFor(act) == IF act \in DOMAIN ACTIVITIES THEN ACTIVITIES[act] ELSE ACTIVITIES.cricket

TempsFor(req) ==
    LET lo == req.optimal_temp[1]
        hi == req.optimal_temp[2]
    IN  ((lo - TempBuffer - Margin)..(lo - TempBuffer)) \cup ((lo - Margin)..lo)
        \cup (hi..(hi + Margin)) \cup ((hi + TempBuffer)..(hi + TempBuffer + Margin))
        \cup {(lo + hi) \div 2}

HumiditiesAround ==
    ((HumidityModerateMin - Margin)..HumidityModerateMin)
    \cup (HumidityLowMax..(HumidityLowMax + Margin))
    \cup (HumidityModerateMax..(HumidityModerateMax + Margin))

WindOptsFor(req) ==
    {NoKeys} \cup {"wind" :> [speed |-> w] : w \in req.max_wind..(req.max_wind + Margin)}

AmountsFor(req) ==
    {0} \cup (req.precipitation_tolerance..(req.precipitation_tolerance + Margin))

\* a key of the payload that is missing, present without "1h", or present with an amount
FallOptsFor(key, req) ==
    {NoKeys} \cup {key :> NoKeys} \cup {key :> ("1h" :> v) : v \in AmountsFor(req)}

Description == "scattered clouds"

CurrentOf(temp, humidity, windOpt, rainOpt, snowOpt) ==
    [main |-> [temp |-> temp, feels_like |-> temp, humidity |-> humidity],
     weather |-> <<[description |-> Description]>>] @@ windOpt @@ rainOpt @@ snowOpt

ReadingsFor(act) ==
    LET req == ProfileFor(act)
    IN  {[current |-> CurrentOf(t, h, w, r, s)] :
            t \in TempsFor(req), h \in HumiditiesAround, w \in WindOptsFor(req),
            r \in FallOptsFor("rain", req), s \in FallOptsFor("snow", req)}

NoResult == NoKeys

ScorerIdle == /\ activity = "" /\ weather_data = NoKeys /\ analysis = NoResult
TextIdle == /\ message = "" /\ intent = "" /\ extraction = NoResult
ChatIdle == /\ endpoint = "" /\ request = NoKeys /\ outcome = NoResult /\ calls = <<>>

InitScorer ==
    /\ pc = "scorer_input"
    /\ activity \in ScorerActivities
    /\ weather_data \in ReadingsFor(activity)
    /\ analysis = NoResult
    /\ TextIdle /\ ChatIdle

Analyze ==
    /\ pc = "scorer_input"
    /\ analysis' = analyze_activity_suitability(weather_data, activity, "now")
    /\ pc' = "scorer_done"
    /\ UNCHANGED <<activity, weather_data, textVars, chatVars>>

NextScorer == Analyze

SpecScorer == InitScorer /\ [][NextScorer]_vars

(***************************************************************************)
(* Properties of the scorer                                                *)
(***************************************************************************)
Done == pc = "scorer_done" /\ activity \in DOMAIN ACTIVITIES

Cur == weather_data.current

Req == ACTIVITIES[activity]

TierRank(tier) ==
    CASE tier = "excellent" -> 3
      [] tier = "good" -> 2
      [] tier = "moderate" -> 1
      [] tier = "poor" -> 0

\* the verdicts of every recognized activity over every reading of the input space,
\* each reduced to its score and tier
AllScoreTiers ==
    {<<v.overall_score, v.recommendation>> :
        v \in UNION {{analyze_activity_suitability(w, a, "now") : w \in ReadingsFor(a)} :
                        a \in DOMAIN ACTIVITIES}}

\* the same reading with no rain and no snow entry: precipitation = 0
DryVariant(data) ==
    [current |-> [k \in (DOMAIN data.current) \ {"rain", "snow"} |-> data.current[k]]]

DryAnalysis == analyze_activity_suitability(DryVariant(weather_data), activity, "now")

Wet == precipitation_of(Cur) > Req.precipitation_tolerance

\* C1: for every catalog activity and every reading, overall_score is 100 minus the
\* penalties that apply: temperature 0 inside the optimal range, 40 more than 5 degrees
\* outside it, 15 otherwise (also exactly 5 degrees outside); wind 25 above max_wind;
\* precipitation 50 above the tolerance; humidity 10 for 'low' above 70 and for
\* 'moderate' above 80 or below 30.
C1_ScoreIsHundredMinusPenalties ==
    Done =>
        LET temp == Cur.main.temp
            humidity == Cur.main.humidity
            lo == Req.optimal_temp[1]
            hi == Req.optimal_temp[2]
            tempPenalty == IF lo <= temp /\ temp <= hi THEN 0
                           ELSE IF temp < lo - 5 \/ temp > hi + 5 THEN 40 ELSE 15
            windPenalty == IF wind_speed_of(Cur) > Req.max_wind THEN 25 ELSE 0
            precipPenalty == IF precipitation_of(Cur) > Req.precipitation_tolerance
                             THEN 50 ELSE 0
            humidityPenalty ==
                IF \/ Req.humidity_preference = "low" /\ humidity > 70
                   \/ Req.humidity_preference = "moderate" /\ (humidity > 80 \/ humidity < 30)
                THEN 10 ELSE 0
        IN  analysis.overall_score
                = 100 - (tempPenalty + windPenalty + precipPenalty + humidityPenalty)

\* C1 witness: cricket at exactly 5 degrees above its optimal range, with wind,
\* precipitation and humidity penalties too: 100 - 15 - 25 - 50 - 10 = 0
C1_Witness ==
    /\ Done /\ activity = "cricket"
    /\ Cur.main.temp = 40
    /\ wind_speed_of(Cur) > 15 /\ precipitation_of(Cur) > 0 /\ Cur.main.humidity > 80
    /\ analysis.overall_score = 0

\* C2: the recommendation tier is determined by overall_score alone (>= 85 excellent,
\* >= 70 good, >= 50 moderate, else poor), a verdict with a higher score never has a
\* worse tier, and suitable is true exactly when overall_score >= 50, i.e. exactly
\* when the tier is not poor.
C2_TierFollowsScore ==
    Done =>
        /\ analysis.recommendation =
              (IF analysis.overall_score >= 85 THEN "excellent"
               ELSE IF analysis.overall_score >= 70 THEN "good"
               ELSE IF analysis.overall_score >= 50 THEN "moderate" ELSE "poor")
        /\ \A other \in AllScoreTiers :
              /\ other[1] > analysis.overall_score
                    => TierRank(other[2]) >= TierRank(analysis.recommendation)
              /\ other[1] = analysis.overall_score => other[2] = analysis.recommendation
        /\ analysis.suitable = (analysis.overall_score >= 50)
        /\ analysis.suitable = (analysis.recommendation # "poor")

\* C2 witness: a verdict at the lowest suitable score, and one right below it
C2_Witness ==
    /\ Done
    /\ analysis.overall_score = 50 /\ analysis.suitable /\ analysis.recommendation = "moderate"
    /\ \E other \in AllScoreTiers : other[1] < 50 /\ other[2] = "poor"

\* C3 (as claimed): the confidence of a verdict is the score clamped to 0..100, never
\* negative and never above 100, also when several penalties apply at once.
C3_ConfidenceClamped ==
    Done =>
        /\ analysis.confidence >= 0
        /\ analysis.confidence <= 100
        /\ analysis.confidence =
              (IF analysis.overall_score < 0 THEN 0
               ELSE IF analysis.overall_score > 100 THEN 100 ELSE analysis.overall_score)

\* C4 (as claimed): with precipitation above the tolerance the tier is at least one
\* level lower than for the same reading with precipitation = 0.
C4_WetLowersTier ==
    Done /\ Wet =>
        TierRank(analysis.recommendation) <= TierRank(DryAnalysis.recommendation) - 1

\* C4 (amended): with precipitation above the tolerance the score is 50 lower than for
\* the same reading with precipitation = 0, the tier is never better, it is at least
\* one level lower whenever the dry tier is not already poor, and it stays poor when
\* the dry tier is poor.
C4_WetLowersTierUnlessPoor ==
    Done /\ Wet =>
        /\ precipitation_of(DryVariant(weather_data).current) = 0
        /\ analysis.overall_score = DryAnalysis.overall_score - 50
        /\ TierRank(analysis.recommendation) <= TierRank(DryAnalysis.recommendation)
        /\ DryAnalysis.recommendation # "poor"
              => TierRank(analysis.recommendation)
                    <= TierRank(DryAnalysis.recommendation) - 1
        /\ DryAnalysis.recommendation = "poor" => analysis.recommendation = "poor"

\* C4 witness: a wet reading whose dry counterpart is excellent, and the wet verdict
\* is lower
C4_Witness ==
    /\ Done /\ Wet
    /\ DryAnalysis.recommendation = "excellent"
    /\ analysis.recommendation = "moderate"

(***************************************************************************)
(* classify_query_intent                                                   *)
(***************************************************************************)
\* mutant: TRAVEL_PLANNING is tested before CLOTHING_ADVICE
classify_query_intent_TravelFirst(msg) ==
    LET message_lower == lower(msg)
    IN  IF any_in(QUERY_TYPES.ACTIVITY_PLANNING, message_lower) THEN "ACTIVITY_PLANNING"
        ELSE IF any_in(QUERY_TYPES.TRAVEL_PLANNING, message_lower) THEN "TRAVEL_PLANNING"
        ELSE IF any_in(QUERY_TYPES.CLOTHING_ADVICE, message_lower) THEN "CLOTHING_ADVICE"
        ELSE IF any_in(QUERY_TYPES.COMFORT_ASSESSMENT, message_lower) THEN "COMFORT_ASSESSMENT"
        ELSE "BASIC_WEATHER"

classify_query_intent(msg) ==
    LET message_lower == lower(msg)
    IN  IF any_in(QUERY_TYPES.ACTIVITY_PLANNING, message_lower) THEN "ACTIVITY_PLANNING"
        ELSE IF any_in(QUERY_TYPES.CLOTHING_ADVICE, message_lower) THEN "CLOTHING_ADVICE"
        ELSE IF any_in(QUERY_TYPES.TRAVEL_PLANNING, message_lower) THEN "TRAVEL_PLANNING"
        ELSE IF any_in(QUERY_TYPES.COMFORT_ASSESSMENT, message_lower) THEN "COMFORT_ASSESSMENT"
        ELSE "BASIC_WEATHER"

(***************************************************************************)
(* extract_city_and_activity                                               *)
(***************************************************************************)
\* mutant: the day words are tested before the parts of the day
time_indicator_keys_DayFirst ==
    <<"tomorrow", "today", "tonight", "morning", "afternoon", "evening">>

\* the keys of time_indicators, in insertion order
time_indicator_keys == <<"morning", "afternoon", "evening", "tomorrow", "today", "tonight">>

time_indicators ==
    [morning   |-> <<"morning", "am">>,
     afternoon |-> <<"afternoon", "noon">>,
     evening   |-> <<"evening", "night", "pm">>,
     tomorrow  |-> <<"tomorrow">>,
     today     |-> <<"today">>,
     tonight   |-> <<"tonight">>]

\* for x in items: if hit(x): result = x; break  -- the index of the first hit, 0 if none
FirstIndex(hits) == IF hits = {} THEN 0 ELSE CHOOSE i \in hits : \A j \in hits : i <= j

\* mutant: the gazetteer name is compared without lowercasing it
extract_city_NoLower(message_lower) ==
    LET first == FirstIndex({i \in 1..Len(COMMON_CITIES) :
                                Contains(message_lower, COMMON_CITIES[i])})
    IN  IF first = 0 THEN "unknown" ELSE COMMON_CITIES[first]

extract_city(message_lower) ==
    LET first == FirstIndex({i \in 1..Len(COMMON_CITIES) :
                                Contains(message_lower, lower(COMMON_CITIES[i]))})
    IN  IF first = 0 THEN "unknown" ELSE COMMON_CITIES[first]

extract_activity(message_lower) ==
    LET first == FirstIndex({i \in 1..Len(ACTIVITIES_keys) :
                                Contains(message_lower, lower(ACTIVITIES_keys[i]))})
    IN  IF first = 0 THEN "unknown" ELSE ACTIVITIES_keys[first]

\* mutant: the loop does not break, the last matching context is kept
extract_time_context_LastMatch(message_lower) ==
    LET hits == {i \in 1..Len(time_indicator_keys) :
                    any_in(time_indicators[time_indicator_keys[i]], message_lower)}
    IN  IF hits = {} THEN "now"
        ELSE time_indicator_keys[CHOOSE i \in hits : \A j \in hits : j <= i]

extract_time_context(message_lower) ==
    LET first == FirstIndex({i \in 1..Len(time_indicator_keys) :
                                any_in(time_indicators[time_indicator_keys[i]], message_lower)})
    IN  IF first = 0 THEN "now" ELSE time_indicator_keys[first]

\* the returned tuple (city, activity, time_context), its components named as the
\* callers unpack them
extract_city_and_activity(msg) ==
    LET message_lower == lower(msg)
    IN  [city |-> extract_city(message_lower),
         activity |-> extract_activity(message_lower),
         time_context |-> extract_time_context(message_lower)]

(***************************************************************************)
(* Inputs of the two text functions                                        *)
(***************************************************************************)
CityMessages ==
    UNION {{"weather in " \o COMMON_CITIES[i], COMMON_CITIES[i]} : i \in 1..Len(COMMON_CITIES)}

OtherMessages ==
    {"thanks!", "hello", "Hi there", "Thank you, bye!",
     "Is it good for cricket in Mumbai tomorrow?",
     "What is the weather, can I play football in Delhi",
     "WEATHER IN PARIS",
     "what should I wear in paris this evening",
     "Is it cold? What to wear for my trip to Rome",
     "temperature for my holiday in Sydney today",
     "pleasant holiday in Havana",
     "is it sunny and nice in Miami",
     "nice weather in Berlin?",
     "bad weather in Oslo tonight",
     "how hot is it at noon in Kiev",
     "Is it raining in Zzzqx",
     "running in Boston at 6 pm",
     "picnic tomorrow morning",
     "Cycling TOMORROW",
     "cycling tomorrow night",
     "hiking today at noon",
     "walk today",
     "walk tonight at 9 PM",
     "tonight or tomorrow?",
     "see you tonight, 1 am",
     "This Afternoon or this evening",
     "Will it rain",
     ""}

Messages == CityMessages \cup OtherMessages

InitText ==
    /\ pc = "text_input"
    /\ message \in Messages
    /\ intent = "" /\ extraction = NoResult
    /\ ScorerIdle /\ ChatIdle

Classify ==
    /\ pc = "text_input" /\ intent = ""
    /\ intent' = classify_query_intent(message)
    /\ UNCHANGED <<pc, message, extraction, scorerVars, chatVars>>

Extract ==
    /\ pc = "text_input" /\ extraction = NoResult
    /\ extraction' = extract_city_and_activity(message)
    /\ UNCHANGED <<pc, message, intent, scorerVars, chatVars>>

NextText == Classify \/ Extract

SpecText == InitText /\ [][NextText]_vars

Classified == pc = "text_input" /\ intent # ""

Extracted == pc = "text_input" /\ extraction # NoResult

CategoriesAsClaimed ==
    <<"BASIC_WEATHER", "ACTIVITY_PLANNING", "CLOTHING_ADVICE", "TRAVEL_PLANNING",
      "COMFORT_ASSESSMENT">>

CategoriesTested ==
    <<"ACTIVITY_PLANNING", "CLOTHING_ADVICE", "TRAVEL_PLANNING", "COMFORT_ASSESSMENT">>

\* the first category of `order` with a keyword contained in the lowercased message
FirstCategory(order, msg) ==
    LET hits == {i \in 1..Len(order) : any_in(QUERY_TYPES[order[i]], lower(msg))}
    IN  IF hits = {} THEN "BASIC_WEATHER" ELSE order[FirstIndex(hits)]

\* C5 (as claimed): the categories are checked in the order BASIC_WEATHER,
\* ACTIVITY_PLANNING, CLOTHING_ADVICE, TRAVEL_PLANNING, COMFORT_ASSESSMENT, the first
\* with a keyword in the message is returned, so a message with a BASIC_WEATHER
\* keyword and a keyword of a later category is classified BASIC_WEATHER.
C5_FirstOfFiveWins ==
    Classified => intent = FirstCategory(CategoriesAsClaimed, message)

\* C5 (amended): the categories are checked in the order ACTIVITY_PLANNING,
\* CLOTHING_ADVICE, TRAVEL_PLANNING, COMFORT_ASSESSMENT by case-insensitive substring
\* containment and the first with a keyword in the message is returned; the
\* BASIC_WEATHER keywords are never consulted and BASIC_WEATHER is returned exactly
\* when none of the four other categories matches, so a message with a BASIC_WEATHER
\* keyword and a keyword of another category is classified as that other category.
C5_FirstOfFourWins ==
    Classified =>
        /\ intent = FirstCategory(CategoriesTested, message)
        /\ intent = "BASIC_WEATHER"
              <=> \A i \in 1..Len(CategoriesTested) :
                      ~any_in(QUERY_TYPES[CategoriesTested[i]], lower(message))

\* C5 witness: a message with a BASIC_WEATHER keyword and keywords of two later
\* categories is classified as the earlier of the two
C5_Witness ==
    /\ Classified
    /\ message = "Is it cold? What to wear for my trip to Rome"
    /\ any_in(QUERY_TYPES.BASIC_WEATHER, lower(message))
    /\ any_in(QUERY_TYPES.TRAVEL_PLANNING, lower(message))
    /\ intent = "CLOTHING_ADVICE"

LlmUnavailable == [kind |-> "unavailable", content |-> ""]
LlmNone == [kind |-> "none", content |-> ""]
LlmText(t) == [kind |-> "text", content |-> t]

\* one HTTP exchange with the provider: a 200 with a JSON body, a 404, another error
\* status, a transport error (timeout, connection), or a 200 whose body is no JSON
HttpOk(json) == [status |-> "ok", json |-> json]
HttpFail(status) == [status |-> status, json |-> NoKeys]
HttpNotCalled == [status |-> "not_called", json |-> NoKeys]
HttpFailures == {"404", "500", "timeout", "badjson"}

HTTPException(status_code, detail) ==
    [type |-> "HTTPException", status_code |-> status_code, detail |-> detail]

OtherException(type, text) == [type |-> type, status_code |-> 0, detail |-> text]

\* str(e)
str_of(e) ==
    IF e.type = "HTTPException" THEN ToString(e.status_code) \o ": " \o e.detail
    ELSE e.detail

\* what client.get / raise_for_status / response.json raise for a failed exchange
httpx_error(status) ==
    CASE status = "404" -> OtherException("HTTPStatusError", "Client error '404 Not Found'")
      [] status = "500" -> OtherException("HTTPStatusError", "Server error '500 Internal Server Error'")
      [] status = "timeout" -> OtherException("ConnectTimeout", "timed out")
      [] status = "badjson" -> OtherException("JSONDecodeError", "Expecting value")

\* except httpx.HTTPError as e: 404 -> HTTPException(404), else HTTPException(500);
\* a JSON decoding error is no httpx.HTTPError and passes through
provider_failure(status, city) ==
    IF status = "badjson" THEN httpx_error(status)
    ELSE IF status = "404" THEN HTTPException(404, "City " \o city \o " not found")
    ELSE HTTPException(500, "Error fetching weather data: " \o str_of(httpx_error(status)))

Raised(exc, made) == [raised |-> TRUE, exc |-> exc, value |-> NoKeys, calls |-> made]
Value(v, made) == [raised |-> FALSE, exc |-> NoKeys, value |-> v, calls |-> made]

ProviderCall(op, city) == [to |-> "provider", op |-> op, city |-> city]
LlmCall(purpose) == [to |-> "llm", op |-> purpose, city |-> ""]

\* a call of one of the module's own functions by a handler
OwnCall(function) == [to |-> "own", op |-> function, city |-> ""]

get_enhanced_weather_data(city, world) ==
    IF ~world.api_key
    THEN Raised(HTTPException(500, "OpenWeather API key not configured"), <<>>)
    ELSE
    LET cur == world.current
        fc == world.forecast
        c1 == <<ProviderCall("weather", city)>>
        c2 == <<ProviderCall("weather", city), ProviderCall("forecast", city)>>
    IN  IF cur.status # "ok" THEN Raised(provider_failure(cur.status, city), c1)
        ELSE IF fc.status # "ok" THEN Raised(provider_failure(fc.status, city), c2)
        ELSE IF ~Has(cur.json, "name") THEN Raised(OtherException("KeyError", "'name'"), c2)
        ELSE IF ~Has(cur.json, "sys") THEN Raised(OtherException("KeyError", "'sys'"), c2)
        ELSE IF ~Has(cur.json.sys, "country")
        THEN Raised(OtherException("KeyError", "'country'"), c2)
        ELSE IF ~Has(cur.json, "timezone")
        THEN Raised(OtherException("KeyError", "'timezone'"), c2)
        ELSE Value([current |-> cur.json,
                    forecast |-> fc.json,
                    city_info |-> [name |-> cur.json.name,
                                   country |-> cur.json.sys.country,
                                   timezone |-> cur.json.timezone]], c2)

(***************************************************************************)
(* generate_activity_advice                                                *)
(***************************************************************************)
generate_activity_advice(verdict, city, act, time_context) ==
    LET recommendation == verdict.recommendation
        opening ==
            IF recommendation = "excellent"
            THEN "Perfect weather for " \o act \o " in " \o city \o "! "
            ELSE IF recommendation = "good"
            THEN "Good conditions for " \o act \o " in " \o city \o ". "
            ELSE IF recommendation = "moderate"
            THEN "You can " \o act \o " in " \o city \o ", but conditions aren't ideal. "
            ELSE "Weather in " \o city \o " isn't great for " \o act \o " right now. "
        poor(name) == \E i \in 1..Len(verdict.factors) :
                          verdict.factors[i].factor = name /\ verdict.factors[i].impact = "poor"
        value(name) ==
            verdict.factors[CHOOSE i \in 1..Len(verdict.factors) :
                                verdict.factors[i].factor = name].value
        rain == IF poor("precipitation") THEN "It's currently raining. " ELSE ""
        temp == IF poor("temperature")
                THEN "Temperature is " \o value("temperature") \o ", which might be uncomfortable. "
                ELSE ""
        wind == IF poor("wind")
                THEN "Wind speed is " \o value("wind") \o ", which could affect your activity. "
                ELSE ""
        timing == IF time_context = "evening" /\ recommendation \in {"excellent", "good"}
                  THEN "Evening timing looks great! " ELSE ""
    IN  strip(opening \o rain \o temp \o wind \o timing)

(***************************************************************************)
(* The entry points                                                        *)
(***************************************************************************)
NO_QUESTION_SMART ==
    "I couldn't understand your question. Please ask about weather or activities!"
ASK_CITY_SMART ==
    "I couldn't determine which city you're asking about. Could you please specify the city name?"
NO_QUESTION_BASIC ==
    "I couldn't understand your question. Please ask about the weather in a specific city."
ASK_CITY_BASIC ==
    "I couldn't determine which city you're asking about. Can you specify the city name?"
TROUBLE ==
    "I'm having trouble getting weather information right now. Please try again later."

Returned(body, made) == [outcome |-> [kind |-> "returned", body |-> body], calls |-> made]
RaisedOut(exc, made) == [outcome |-> [kind |-> "raised", exc |-> exc], calls |-> made]

\* next((msg.content for msg in reversed(messages) if msg.role == "user"), None)
UserIndexes(messages) == {i \in 1..Len(messages) : messages[i].role = "user"}

HasUserMessage(messages) == UserIndexes(messages) # {}

last_user_message_of_First(messages) ==
    messages[CHOOSE i \in UserIndexes(messages) : \A j \in UserIndexes(messages) : i <= j].content

last_user_message_of(messages) ==
    messages[CHOOSE i \in UserIndexes(messages) : \A j \in UserIndexes(messages) : j <= i].content

\* `not last_user_message`: None or the empty text
NoQuestion(messages) == ~HasUserMessage(messages) \/ last_user_message_of(messages) = ""

\* the reads of current[...] in the handlers; a missing key is a KeyError
HandlerFieldsPresent(current) ==
    /\ Has(current, "weather") /\ Len(current.weather) >= 1
    /\ Has(current.weather[1], "description")
    /\ Has(current, "main")
    /\ Has(current.main, "temp") /\ Has(current.main, "feels_like")
    /\ Has(current.main, "humidity")

\* city = city_extraction.choices[0].message.content.strip(); on any exception the
\* city stays "unknown"
fallback_city_NoStrip(llm) == IF llm.kind = "text" THEN llm.content ELSE "unknown"

fallback_city(llm) == IF llm.kind = "text" THEN strip(llm.content) ELSE "unknown"

\* mutant: the activity branch is taken for every intent
activity_planning_path_AnyIntent(query_intent, act) == act # "unknown"

\* if intent == "ACTIVITY_PLANNING" and activity != "unknown"
activity_planning_path(query_intent, act) ==
    query_intent = "ACTIVITY_PLANNING" /\ act # "unknown"

smart_weather_chat(req) ==
    IF NoQuestion(req.messages) THEN Returned([response |-> NO_QUESTION_SMART], <<>>)
    ELSE
    LET last_user_message == last_user_message_of(req.messages)
        query_intent == classify_query_intent(last_user_message)
        extracted == extract_city_and_activity(last_user_message)
        asked == extracted.city = "unknown"
        city == IF asked THEN fallback_city(req.llm_city) ELSE extracted.city
        own == <<OwnCall("classify_query_intent"), OwnCall("extract_city_and_activity")>>
        c0 == IF asked THEN own \o <<LlmCall("extract_city")>> ELSE own
    IN  IF lower(city) = "unknown" THEN Returned([response |-> ASK_CITY_SMART], c0)
        ELSE
        LET got == get_enhanced_weather_data(city, req.world)
            c1 == c0 \o got.calls
        IN  IF got.raised THEN Returned([response |-> TROUBLE], c1)
            ELSE IF ~HandlerFieldsPresent(got.value.current)
            THEN Returned([response |-> TROUBLE], c1)
            ELSE
            LET current == got.value.current
                weather_desc == current.weather[1].description
                temp == current.main.temp
                feels_like == current.main.feels_like
                humidity == current.main.humidity
                wind_speed == wind_speed_of(current)
            IN  IF activity_planning_path(query_intent, extracted.activity)
                THEN
                    LET verdict == analyze_activity_suitability(
                                       got.value, extracted.activity, extracted.time_context)
                        advice == generate_activity_advice(
                                      verdict, city, extracted.activity, extracted.time_context)
                    IN  Returned(
                            [response |-> advice,
                             response_type |-> "activity_advice",
                             structured_data |->
                                [query_type |-> "activity_planning",
                                 city |-> city,
                                 activity |-> extracted.activity,
                                 time_context |-> extracted.time_context,
                                 recommendation |-> verdict.recommendation,
                                 confidence |-> verdict.confidence,
                                 factors |-> verdict.factors,
                                 current_weather |->
                                    [temperature |-> ToString(temp) \o "°C",
                                     description |-> weather_desc,
                                     humidity |-> ToString(humidity) \o "%",
                                     wind_speed |-> ToString(wind_speed) \o " m/s"]]],
                            c1 \o <<OwnCall("analyze_activity_suitability"),
                                    OwnCall("generate_activity_advice")>>)
                ELSE
                    LET c2 == c1 \o <<LlmCall("format")>>
                    IN  IF req.llm_reply.kind = "unavailable"
                        THEN Returned([response |-> TROUBLE], c2)
                        ELSE Returned(
                                [response |-> req.llm_reply.content,
                                 response_type |-> "enhanced_weather",
                                 structured_data |->
                                    [query_type |-> "basic_weather",
                                     city |-> city,
                                     current_weather |->
                                        [temperature |-> ToString(temp) \o "°C",
                                         feels_like |-> ToString(feels_like) \o "°C",
                                         description |-> weather_desc,
                                         humidity |-> ToString(humidity) \o "%",
                                         wind_speed |-> ToString(wind_speed) \o " m/s"]]],
                                c2)

weather_chat(req) ==
    IF NoQuestion(req.messages) THEN Returned([response |-> NO_QUESTION_BASIC], <<>>)
    ELSE
    LET c0 == <<LlmCall("extract_city")>>
    IN  IF req.llm_city.kind # "text" THEN Returned([response |-> ASK_CITY_BASIC], c0)
        ELSE
        LET city == strip(req.llm_city.content)
        IN  IF lower(city) = "unknown" THEN Returned([response |-> ASK_CITY_BASIC], c0)
            ELSE
            LET got == get_enhanced_weather_data(city, req.world)
                c1 == c0 \o got.calls
                c2 == c1 \o <<LlmCall("format")>>
            IN  IF got.raised THEN Returned([response |-> TROUBLE], c1)
                ELSE IF ~HandlerFieldsPresent(got.value.current)
                THEN Returned([response |-> TROUBLE], c1)
                ELSE IF req.llm_reply.kind = "unavailable"
                THEN Returned([response |-> TROUBLE], c2)
                ELSE Returned([response |-> req.llm_reply.content], c2)

get_weather(req) ==
    IF ~req.world.api_key
    THEN RaisedOut(HTTPException(500, "OpenWeather API key not configured"), <<>>)
    ELSE
    LET cur == req.world.current
        c1 == <<ProviderCall("weather", req.city)>>
    IN  IF cur.status = "ok" THEN Returned(cur.json, c1)
        ELSE RaisedOut(provider_failure(cur.status, req.city), c1)

get_weather_forecast(req) ==
    LET got == get_enhanced_weather_data(req.city, req.world)
    IN  IF got.raised
        THEN RaisedOut(HTTPException(500, "Error fetching forecast data: " \o str_of(got.exc)),
                       got.calls)
        ELSE Returned(got.value.forecast, got.calls)

chat_with_ai(req) ==
    IF req.llm_reply.kind = "unavailable"
    THEN RaisedOut(HTTPException(500, "Error communicating with OpenAI: unavailable"),
                   <<LlmCall("chat")>>)
    ELSE Returned([response |-> req.llm_reply.content], <<LlmCall("chat")>>)

(***************************************************************************)
(* Requests.  The code keeps nothing from one request to the next, so a    *)
(* behaviour is one request and its answer.                                *)
(***************************************************************************)
User(text) == [role |-> "user", content |-> text]
Assistant(text) == [role |-> "assistant", content |-> text]

ChatTexts ==
    {"weather in Tokyo", "Paris", "What is the weather in London",
     "Is it good for cricket in Mumbai tomorrow?", "Can I go running this evening",
     "should I play football in Delhi this evening",
     "cricket weather in Mumbai", "picnic trip to Rome",
     "weather in Zzzqx", "thanks!", "hello", "Thank you, bye!", ""}

Conversations ==
    {<<User(t)>> : t \in ChatTexts}
    \cup {<<User("weather in Tokyo"), Assistant("It is sunny in Tokyo."), User(t)>> :
             t \in {"thanks!", "and in Paris", "Is it good for cricket there?"}}
    \cup {<<User("weather in Tokyo"), Assistant("It is sunny in Tokyo.")>>,
          <<User("weather in Tokyo"), Assistant("Do you mean Paris or London?")>>,
          <<User("Is it good for cricket in Mumbai tomorrow?"),
            Assistant("Good conditions for cricket in Mumbai."),
            User("weather in Tokyo")>>,
          <<User("weather in London"), [role |-> "system", content |-> "weather in Paris"]>>,
          <<Assistant("Hello, ask me about the weather.")>>,
          <<>>}

LlmCityAnswers == {"unknown", "Unknown", " unknown ", "", "   ", "Tokyo", " Paris ", "Zzzqx"}

LlmCityOutcomes == {LlmUnavailable, LlmNone} \cup {LlmText(t) : t \in LlmCityAnswers}

LlmReplyOutcomes == {LlmUnavailable, LlmText("It is mild and dry right now, enjoy your day!")}

Located == [name |-> "Tokyo", sys |-> [country |-> "JP"], timezone |-> 32400]

\* bodies of a 200 answer of the weather endpoint: three complete readings, one
\* without its "sys" entry and one without its "main" entry
CurrentBodies ==
    {CurrentOf(28, 50, "wind" :> [speed |-> 10], NoKeys, NoKeys) @@ Located,
     CurrentOf(2, 90, "wind" :> [speed |-> 30], "rain" :> ("1h" :> 4), NoKeys) @@ Located,
     CurrentOf(18, 60, NoKeys, NoKeys, "snow" :> ("1h" :> 2)) @@ Located,
     CurrentOf(28, 50, NoKeys, NoKeys, NoKeys) @@ [name |-> "Tokyo", timezone |-> 32400],
     [weather |-> <<[description |-> Description]>>] @@ Located}

ForecastBody == [cnt |-> 0, list |-> <<>>]

\* what the provider does when asked: nothing is asked without an API key, and the
\* forecast is asked only after the current weather was answered
Worlds ==
    {[api_key |-> FALSE, current |-> HttpNotCalled, forecast |-> HttpNotCalled]}
    \cup {[api_key |-> TRUE, current |-> HttpFail(f), forecast |-> HttpNotCalled] :
             f \in HttpFailures}
    \cup {[api_key |-> TRUE, current |-> HttpOk(b), forecast |-> HttpOk(ForecastBody)] :
             b \in CurrentBodies}
    \cup {[api_key |-> TRUE, current |-> HttpOk(b), forecast |-> HttpFail(f)] :
             b \in CurrentBodies, f \in HttpFailures}

PathCities == {"Tokyo", "Zzzqx", "new york"}

ChatRequests ==
    {[kind |-> "chat", messages |-> m, city |-> "", llm_city |-> x, llm_reply |-> y,
      world |-> w] :
        m \in Conversations, x \in LlmCityOutcomes, y \in LlmReplyOutcomes, w \in Worlds}

CityRequests ==
    {[kind |-> "city", messages |-> <<>>, city |-> c, llm_city |-> LlmUnavailable,
      llm_reply |-> LlmUnavailable, world |-> w] :
        c \in PathCities, w \in Worlds}

Init ==
    /\ pc = "request_pending"
    /\ request \in ChatRequests \cup CityRequests
    /\ endpoint = "" /\ outcome = NoResult /\ calls = <<>>
    /\ ScorerIdle /\ TextIdle

Respond(name, result) ==
    /\ endpoint' = name
    /\ outcome' = result.outcome
    /\ calls' = result.calls
    /\ pc' = "responded"
    /\ UNCHANGED <<request, scorerVars, textVars>>

SmartWeatherChat ==
    /\ pc = "request_pending" /\ request.kind = "chat"
    /\ Respond("smart_weather_chat", smart_weather_chat(request))

WeatherChat ==
    /\ pc = "request_pending" /\ request.kind = "chat"
    /\ Respond("weather_chat", weather_chat(request))

ChatWithAi ==
    /\ pc = "request_pending" /\ request.kind = "chat"
    /\ Respond("chat_with_ai", chat_with_ai(request))

GetWeather ==
    /\ pc = "request_pending" /\ request.kind = "city"
    /\ Respond("get_weather", get_weather(request))

GetWeatherForecast ==
    /\ pc = "request_pending" /\ request.kind = "city"
    /\ Respond("get_weather_forecast", get_weather_forecast(request))

Next == SmartWeatherChat \/ WeatherChat \/ ChatWithAi \/ GetWeather \/ GetWeatherForecast

Spec == Init /\ [][Next]_vars

(***************************************************************************)
(* Properties of the entry points                                          *)
(***************************************************************************)
Responded(name) == pc = "responded" /\ endpoint = name

Asked == ~NoQuestion(request.messages)

LastText == last_user_message_of(request.messages)

ProviderCalls == {i \in 1..Len(calls) : calls[i].to = "provider"}

LlmCalls(purpose) == {i \in 1..Len(calls) : calls[i].to = "llm" /\ calls[i].op = purpose}

ReplyText == IF outcome.kind = "returned" /\ Has(outcome.body, "response")
             THEN outcome.body.response ELSE ""

\* the exchange with the provider that failed while the request was served, if any
FailedExchange ==
    IF \E i \in ProviderCalls : calls[i].op = "weather" /\ request.world.current.status # "ok"
    THEN request.world.current.status
    ELSE IF \E i \in ProviderCalls :
                calls[i].op = "forecast" /\ request.world.forecast.status # "ok"
    THEN request.world.forecast.status
    ELSE "none"

NotFoundReported ==
    \/ outcome.kind = "raised" /\ outcome.exc.status_code = 404
    \/ /\ outcome.kind = "returned" /\ Has(outcome.body, "response")
       /\ \/ Contains(lower(outcome.body.response), "not found")
          \/ Contains(lower(outcome.body.response), "couldn't find")
          \/ Contains(lower(outcome.body.response), "check the city name")

GenericFailureReported ==
    \/ outcome.kind = "raised" /\ outcome.exc.status_code # 404
    \/ /\ outcome.kind = "returned" /\ Has(outcome.body, "response")
       /\ Contains(lower(outcome.body.response), "try again later")

Courtesies == {"thanks!", "hello", "Thank you, bye!"}

\* C7 (as claimed): the city of a turn is never the empty string, both as returned by
\* extract_city_and_activity and as passed by smart_weather_chat to the weather
\* lookup after its fallback extraction.
C7_CityNeverEmpty ==
    Responded("smart_weather_chat") /\ Asked =>
        /\ extract_city_and_activity(LastText).city # ""
        /\ \A i \in ProviderCalls : calls[i].city # ""

\* C8 (as claimed): a turn whose last user message is a pure greeting, thanks or
\* farewell ends with a canned acknowledgment, the weather provider is never queried
\* during it, and the reply does not reference a city named earlier (Tokyo).
C8_CourtesySkipsWeather ==
    Responded("smart_weather_chat") /\ Asked /\ LastText \in Courtesies =>
        /\ ProviderCalls = {}
        /\ outcome.kind = "returned"
        /\ DOMAIN outcome.body = {"response"}
        /\ outcome.body.response \notin {NO_QUESTION_SMART, ASK_CITY_SMART, TROUBLE}
        /\ ~Contains(outcome.body.response, "Tokyo")

\* C9 (as claimed): at smart_weather_chat, weather_chat, get_weather and
\* get_weather_forecast a 404 of the provider is reported as 'city not found', any
\* other provider failure as a generic 'try again later' or server error, and the
\* two are never reported identically.
C9_NotFoundDistinct ==
    /\ pc = "responded"
    /\ endpoint \in {"smart_weather_chat", "weather_chat", "get_weather", "get_weather_forecast"}
    =>
        /\ FailedExchange = "404" => NotFoundReported /\ ~GenericFailureReported
        /\ FailedExchange \in HttpFailures \ {"404"} => GenericFailureReported

\* C10 (as claimed): in smart_weather_chat and weather_chat, when the provider returned
\* data and the call that formats the reply fails, the reply is a template built from
\* the fetched temperature, description, humidity and wind, never a generic error.
C10_TemplateOnFormatterFailure ==
    /\ pc = "responded"
    /\ endpoint \in {"smart_weather_chat", "weather_chat"}
    /\ LlmCalls("format") # {}
    /\ request.llm_reply.kind = "unavailable"
    =>
        LET current == request.world.current.json
        IN  /\ outcome.kind = "returned"
            /\ ReplyText # TROUBLE
            /\ Contains(ReplyText, ToString(current.main.temp))
            /\ Contains(ReplyText, current.weather[1].description)
            /\ Contains(ReplyText, ToString(current.main.humidity))
            /\ Contains(ReplyText, ToString(wind_speed_of(current)))

\* C11 (as claimed): whatever the provider and the text-generation service do, each
\* entry point ends by returning a response object and none ends by raising an
\* exception to the transport layer.
C11_AlwaysReturns ==
    pc = "responded" => outcome.kind = "returned"

\* C12 (as claimed): every object returned by smart_weather_chat carries a response
\* text and a response_type that is enhanced_weather, activity_advice or error.
C12_ResponseTypeOnEveryPath ==
    Responded("smart_weather_chat") /\ outcome.kind = "returned" =>
        /\ Has(outcome.body, "response")
        /\ Has(outcome.body, "response_type")
        /\ outcome.body.response_type \in {"enhanced_weather", "activity_advice", "error"}

\* the content of the message found by walking the list backwards from position i to
\* the first message whose role is 'user': a list of one text, or of none
RECURSIVE LastUserContent(_, _)
LastUserContent(messages, i) ==
    IF i = 0 THEN <<>>
    ELSE IF messages[i].role = "user" THEN <<messages[i].content>>
    ELSE LastUserContent(messages, i - 1)

AskedLast == LastUserContent(request.messages, Len(request.messages))

\* the same request with the conversation cut down to its last user message
LastAlone == [request EXCEPT !.messages = <<User(AskedLast[1])>>]

\* C13: smart_weather_chat and weather_chat answer a conversation exactly as they
\* answer its last user message alone (same outcome, same calls; intent, city,
\* activity and time context of the reply are those of that message); with no user
\* message the reply is the canned clarification and no collaborator is called.
C13_LastUserMessageDrives ==
    pc = "responded" /\ endpoint \in {"smart_weather_chat", "weather_chat"} =>
        IF AskedLast = <<>>
        THEN /\ outcome.kind = "returned"
             /\ outcome.body = [response |-> IF endpoint = "smart_weather_chat"
                                              THEN NO_QUESTION_SMART ELSE NO_QUESTION_BASIC]
             /\ calls = <<>>
        ELSE LET alone == IF endpoint = "smart_weather_chat"
                          THEN smart_weather_chat(LastAlone) ELSE weather_chat(LastAlone)
                 found == extract_city_and_activity(AskedLast[1])
             IN  /\ outcome = alone.outcome
                 /\ calls = alone.calls
                 /\ outcome.kind = "returned"
                 /\ Has(outcome.body, "structured_data") =>
                        LET data == outcome.body.structured_data
                        IN  /\ found.city # "unknown" => data.city = found.city
                            /\ data.query_type = "activity_planning" =>
                                   /\ classify_query_intent(AskedLast[1]) = "ACTIVITY_PLANNING"
                                   /\ data.activity = found.activity
                                   /\ data.time_context = found.time_context

\* a follow-up naming another city after an exchange about Tokyo is answered for the
\* follow-up's city
C13_Witness ==
    /\ Responded("smart_weather_chat")
    /\ request.messages = <<User("weather in Tokyo"), Assistant("It is sunny in Tokyo."),
                            User("and in Paris")>>
    /\ outcome.kind = "returned"
    /\ Has(outcome.body, "structured_data")
    /\ outcome.body.structured_data.city = extract_city_and_activity("and in Paris").city
    /\ outcome.body.structured_data.city # "unknown"
    /\ \E i \in ProviderCalls : calls[i].city = outcome.body.structured_data.city

\* the fallback extraction fails (the call raises, or its content is None), or it
\* answers 'unknown' in any letter case, with or without blanks around it
LlmFindsNoCity ==
    \/ request.llm_city.kind # "text"
    \/ lower(strip(request.llm_city.content)) = "unknown"

NoCityForTurn ==
    /\ Asked
    /\ LlmFindsNoCity
    /\ endpoint = "smart_weather_chat" => extract_city_and_activity(LastText).city = "unknown"

\* C14: in smart_weather_chat and weather_chat a turn for which no city can be
\* determined ends by returning the reply that asks for the city, nothing is raised,
\* and the weather provider is not queried in that turn.
C14_NoCityAsksAndSkipsProvider ==
    /\ pc = "responded"
    /\ endpoint \in {"smart_weather_chat", "weather_chat"}
    /\ NoCityForTurn
    =>
        /\ outcome.kind = "returned"
        /\ outcome.body = [response |-> IF endpoint = "smart_weather_chat"
                                         THEN ASK_CITY_SMART ELSE ASK_CITY_BASIC]
        /\ ProviderCalls = {}

\* 'hello' names no city and the fallback extraction answers ' unknown ': the turn
\* asked the text-generation service once and ended with the request for a city
C14_Witness ==
    /\ Responded("smart_weather_chat")
    /\ Asked
    /\ LastText = "hello"
    /\ request.llm_city = LlmText(" unknown ")
    /\ request.world.api_key
    /\ LlmCalls("extract_city") # {}
    /\ ReplyText = ASK_CITY_SMART
    /\ ProviderCalls = {}

(***************************************************************************)
(* Properties of the time context                                          *)
(***************************************************************************)
MessageHas(trigger) == Contains(lower(message), trigger)

MorningTrigger == MessageHas("morning") \/ MessageHas("am")

AfternoonTrigger == MessageHas("afternoon") \/ MessageHas("noon")

EveningTrigger == MessageHas("evening") \/ MessageHas("night") \/ MessageHas("pm")

PartOfDayTrigger == MorningTrigger \/ AfternoonTrigger \/ EveningTrigger

AnyTimeTrigger ==
    PartOfDayTrigger \/ MessageHas("tomorrow") \/ MessageHas("today") \/ MessageHas("tonight")

\* the first context of the table, in the order of the table, with a trigger in the
\* lowercased message
TimeContextAsClaimed ==
    IF MorningTrigger THEN "morning"
    ELSE IF AfternoonTrigger THEN "afternoon"
    ELSE IF EveningTrigger THEN "evening"
    ELSE IF MessageHas("tomorrow") THEN "tomorrow"
    ELSE IF MessageHas("today") THEN "today"
    ELSE IF MessageHas("tonight") THEN "tonight"
    ELSE "now"

\* C15: the time context returned by extract_city_and_activity is the first context,
\* in the order morning, afternoon, evening, tomorrow, today, tonight, one of whose
\* triggers is a substring of the lowercased message, and it is 'now' exactly when
\* no trigger of any context occurs in the message.
C15_FirstTimeContextInTableOrder ==
    Extracted =>
        /\ extraction.time_context = TimeContextAsClaimed
        /\ extraction.time_context = "now" <=> ~AnyTimeTrigger

\* a message with triggers of two contexts, the later one written first
C15_Witness ==
    /\ Extracted
    /\ message = "picnic tomorrow morning"
    /\ MessageHas("tomorrow") /\ MessageHas("morning")
    /\ extraction.time_context = "morning"

\* C18: extract_city_and_activity never returns the time context 'tonight': a message
\* with the trigger 'tonight' has the evening trigger 'night' too and yields evening
\* or an earlier context; and a message with 'tomorrow' and a trigger of morning,
\* afternoon or evening never yields 'tomorrow'.
C18_TonightNeverReturned ==
    Extracted =>
        /\ extraction.time_context # "tonight"
        /\ MessageHas("tonight") =>
               /\ MessageHas("night")
               /\ extraction.time_context \in {"morning", "afternoon", "evening"}
               /\ ~MorningTrigger /\ ~AfternoonTrigger => extraction.time_context = "evening"
        /\ MessageHas("tomorrow") /\ PartOfDayTrigger =>
               extraction.time_context \in {"morning", "afternoon", "evening"}

\* a message whose only time word is 'tonight' is given the context evening
C18_Witness ==
    /\ Extracted
    /\ message = "bad weather in Oslo tonight"
    /\ MessageHas("tonight")
    /\ extraction.time_context = "evening"

(***************************************************************************)
(* Order of the steps of one smart_weather_chat turn                       *)
(***************************************************************************)
OwnCalls(function) == {i \in 1..Len(calls) : calls[i].to = "own" /\ calls[i].op = function}

ScorerRuns == OwnCalls("analyze_activity_suitability")

Before(earlier, later) == \A i \in earlier : \A j \in later : i < j

ProviderReturnedData ==
    /\ \E i \in ProviderCalls : calls[i].op = "weather"
    /\ \E i \in ProviderCalls : calls[i].op = "forecast"
    /\ request.world.current.status = "ok"
    /\ request.world.forecast.status = "ok"

ActivityTurn ==
    /\ classify_query_intent(LastText) = "ACTIVITY_PLANNING"
    /\ extract_city_and_activity(LastText).activity # "unknown"

\* the turn ended with a reply built from weather data, not with a canned text
SuccessfulTurn ==
    /\ outcome.kind = "returned"
    /\ ReplyText \notin {NO_QUESTION_SMART, ASK_CITY_SMART, TROUBLE}

\* C16: in a smart_weather_chat turn classification and extraction come first, then
\* the provider queries, then formatting; the scorer runs only for an
\* ACTIVITY_PLANNING intent with a known activity and only after the provider
\* returned data, and that turn's reply has response_type activity_advice without a
\* formatting call of the text-generation service; every other successful turn runs
\* no scorer and has response_type enhanced_weather.
C16_StepsInOrder ==
    Responded("smart_weather_chat") /\ Asked =>
        /\ OwnCalls("classify_query_intent") = {1}
        /\ OwnCalls("extract_city_and_activity") = {2}
        /\ Before({1, 2}, ProviderCalls)
        /\ Before(ProviderCalls, ScorerRuns \cup OwnCalls("generate_activity_advice"))
        /\ Before(ProviderCalls, LlmCalls("format"))
        /\ LlmCalls("format") # {} => ProviderReturnedData
        /\ ScorerRuns # {} =>
               /\ ActivityTurn
               /\ ProviderReturnedData
               /\ outcome.kind = "returned"
               /\ Has(outcome.body, "response_type")
               /\ outcome.body.response_type = "activity_advice"
               /\ LlmCalls("format") = {}
        /\ SuccessfulTurn /\ ~ActivityTurn =>
               /\ ScorerRuns = {}
               /\ Has(outcome.body, "response_type")
               /\ outcome.body.response_type = "enhanced_weather"
        /\ SuccessfulTurn /\ ActivityTurn => ScorerRuns # {}

\* an activity question answered by the scorer after both provider queries
C16_Witness ==
    /\ Responded("smart_weather_chat")
    /\ Asked
    /\ LastText = "Is it good for cricket in Mumbai tomorrow?"
    /\ ActivityTurn
    /\ Cardinality(ProviderCalls) = 2
    /\ ScorerRuns # {}
    /\ Before(ProviderCalls, ScorerRuns)
    /\ outcome.body.response_type = "activity_advice"

\* a message naming an activity without the intent of planning it is formatted by the
\* text-generation service and the scorer does not run
C16_WitnessOtherPath ==
    /\ Responded("smart_weather_chat")
    /\ Asked
    /\ LastText = "cricket weather in Mumbai"
    /\ ~ActivityTurn
    /\ ScorerRuns = {}
    /\ LlmCalls("format") # {}
    /\ outcome.body.response_type = "enhanced_weather"

(***************************************************************************)
(* FixedWeatherTools (backend/app/weather_tools_fixed.py)                  *)
(*                                                                         *)
(* JSON numbers with a fraction (temperatures, wind speed, pollutant       *)
(* concentrations) are integers counting tenths; humidity and the air      *)
(* quality index are plain integers.                                       *)
(***************************************************************************)
\* a pictograph of the source text, written by its name (TLA+ strings hold no
\* characters outside the basic plane)
Pictograph(name) == ":" \o name \o ":"

LowerToUpper ==
    [a |-> "A", b |-> "B", c |-> "C", d |-> "D", e |-> "E", f |-> "F", g |-> "G",
     h |-> "H", i |-> "I", j |-> "J", k |-> "K", l |-> "L", m |-> "M", n |-> "N",
     o |-> "O", p |-> "P", q |-> "Q", r |-> "R", s |-> "S", t |-> "T", u |-> "U",
     v |-> "V", w |-> "W", x |-> "X", y |-> "Y", z |-> "Z"]

UpperChar(c) == IF c \in DOMAIN LowerToUpper THEN LowerToUpper[c] ELSE c

\* str.title(): a letter that follows a letter is lowercased, any other letter is
\* uppercased
RECURSIVE title_after(_, _)
title_after(s, in_word) ==
    IF s = "" THEN ""
    ELSE LET c == SubSeq(s, 1, 1)
             letter == c \in DOMAIN UpperToLower \/ c \in DOMAIN LowerToUpper
         IN  (IF ~letter THEN c ELSE IF in_word THEN LowerChar(c) ELSE UpperChar(c))
                 \o title_after(SubSeq(s, 2, Len(s)), letter)

title(s) == title_after(s, FALSE)

\* round(x) of a number given in tenths: to the nearest integer, a half to the even one
round(tenths) ==
    LET q == tenths \div 10
        r == tenths % 10
    IN  IF r < 5 THEN q
        ELSE IF r > 5 THEN q + 1
        ELSE IF q % 2 = 0 THEN q ELSE q + 1

\* f"{x}" of a number given in tenths
decimal(tenths) ==
    LET a == IF tenths < 0 THEN 0 - tenths ELSE tenths
    IN  (IF tenths < 0 THEN "-" ELSE "") \o ToString(a \div 10) \o "." \o ToString(a % 10)

\* s.split()[0]: the first run of non-blank characters, "" when there is none (the
\* index then raises IndexError)
RECURSIVE until_blank(_)
until_blank(s) ==
    IF s = "" \/ SubSeq(s, 1, 1) \in Whitespace THEN ""
    ELSE SubSeq(s, 1, 1) \o until_blank(SubSeq(s, 2, Len(s)))

first_token(s) == until_blank(lstrip(s))

\* one step of a subscript chain d[k1][k2]...: a dict key or a list index
Key(k) == [key |-> k]
Index(i) == [index |-> i]

\* the exception raised by evaluating d[k1][k2]..., NoKeys when it evaluates
RECURSIVE read_error(_, _)
read_error(d, path) ==
    IF path = <<>> THEN NoKeys
    ELSE LET step == Head(path)
         IN  IF Has(step, "key")
             THEN IF Has(d, step.key) THEN read_error(d[step.key], Tail(path))
                  ELSE OtherException("KeyError", "'" \o step.key \o "'")
             ELSE IF step.index + 1 \in DOMAIN d
                  THEN read_error(d[step.index + 1], Tail(path))
                  ELSE OtherException("IndexError", "list index out of range")

\* the exception of the first of the subscript chains, taken in order, that raises
first_read_error(d, paths) ==
    LET bad == {i \in 1..Len(paths) : read_error(d, paths[i]) # NoKeys}
    IN  IF bad = {} THEN NoKeys ELSE read_error(d, paths[FirstIndex(bad)])

\* except httpx.HTTPError as e: ... / except Exception as e: ...
is_httpx_HTTPError(e) == e.type \in {"HTTPStatusError", "ConnectTimeout"}

\* mutant: only httpx.HTTPError is caught
fail_closed_OnlyHttpError(result, http_prefix, other_prefix) ==
    IF ~result.raised THEN Returned(result.value, result.calls)
    ELSE IF is_httpx_HTTPError(result.exc)
    THEN Returned(http_prefix \o str_of(result.exc), result.calls)
    ELSE RaisedOut(result.exc, result.calls)

\* the try block of an operation with its two except clauses
fail_closed(result, http_prefix, other_prefix) ==
    IF ~result.raised THEN Returned(result.value, result.calls)
    ELSE IF is_httpx_HTTPError(result.exc)
    THEN Returned(http_prefix \o str_of(result.exc), result.calls)
    ELSE Returned(other_prefix \o str_of(result.exc), result.calls)

CoordinateCall(op, lat, lon) == [to |-> "provider", op |-> op, city |-> "", lat |-> lat, lon |-> lon]

not_found_text(what, location) ==
    "Sorry, I couldn't find " \o what \o " data for '" \o location
        \o "'. Please check the city name and try again."

current_weather_reads ==
    <<  <<Key("name")>>,
        <<Key("sys"), Key("country")>>,
        <<Key("weather"), Index(0), Key("description")>>,
        <<Key("main"), Key("temp")>>,
        <<Key("main"), Key("feels_like")>>,
        <<Key("main"), Key("humidity")>>,
        <<Key("wind"), Key("speed")>>  >>

get_current_weather_try(location, exchange) ==
    LET made == <<ProviderCall("weather", location)>>
    IN  IF exchange.status = "timeout" THEN Raised(httpx_error("timeout"), made)
        ELSE IF exchange.status = "404" THEN Value(not_found_text("weather", location), made)
        ELSE IF exchange.status # "ok" THEN Raised(httpx_error(exchange.status), made)
        ELSE
        LET data == exchange.json
            failed == first_read_error(data, current_weather_reads)
        IN  IF failed # NoKeys THEN Raised(failed, made)
            ELSE Value(
                Pictograph("round_pushpin") \o " " \o data.name \o ", " \o data.sys.country \o "\n"
                \o Pictograph("thermometer") \o " " \o ToString(round(data.main.temp))
                \o "°C (feels like " \o ToString(round(data.main.feels_like)) \o "°C)\n"
                \o Pictograph("cloud") \o " " \o title(data.weather[1].description) \o "\n"
                \o Pictograph("droplet") \o " Humidity: " \o ToString(data.main.humidity) \o "%\n"
                \o Pictograph("dash") \o " Wind: " \o decimal(data.wind.speed) \o " m/s",
                made)

get_current_weather(location, exchange) ==
    fail_closed(get_current_weather_try(location, exchange),
                "Error fetching weather data: ",
                "Unexpected error getting weather for " \o location \o ": ")

MinDays == 1
MaxDays == 5
IntervalsPerDay == 8

Max(a, b) == IF a >= b THEN a ELSE b

\* max(1, min(days, 5))
clamp_days(days) == Max(MinDays, Min(days, MaxDays))

\* forecasts[::8] of forecasts = data["list"][:days * 8]
one_per_day(list, days) ==
    LET forecasts == SubSeq(list, 1, Min(Len(list), days * IntervalsPerDay))
        count == (Len(forecasts) + IntervalsPerDay - 1) \div IntervalsPerDay
    IN  [k \in 1..count |-> forecasts[(k - 1) * IntervalsPerDay + 1]]

forecast_reads ==
    <<  <<Key("main"), Key("temp_max")>>,
        <<Key("main"), Key("temp_min")>>,
        <<Key("weather"), Index(0), Key("description")>>  >>

\* the loop over the picked forecasts: the lines it appends, or the exception that
\* ends it; current_date "" is None (a date is never empty)
RECURSIVE forecast_lines(_, _)
forecast_lines(picked, current_date) ==
    IF picked = <<>> THEN Value("", <<>>)
    ELSE
    LET forecast == Head(picked)
    IN  IF ~Has(forecast, "dt_txt") THEN Raised(OtherException("KeyError", "'dt_txt'"), <<>>)
        ELSE
        LET date == first_token(forecast.dt_txt)
        IN  IF date = ""
            THEN Raised(OtherException("IndexError", "list index out of range"), <<>>)
            ELSE IF date = current_date THEN forecast_lines(Tail(picked), current_date)
            ELSE
            LET failed == first_read_error(forecast, forecast_reads)
                rest == forecast_lines(Tail(picked), date)
            IN  IF failed # NoKeys THEN Raised(failed, <<>>)
                ELSE IF rest.raised THEN rest
                ELSE Value(
                    Pictograph("date") \o " " \o date \o ": "
                    \o ToString(round(forecast.main.temp_min)) \o "°C - "
                    \o ToString(round(forecast.main.temp_max)) \o "°C, "
                    \o title(forecast.weather[1].description) \o "\n" \o rest.value,
                    <<>>)

get_forecast_try(location, days_given, exchange) ==
    LET days == clamp_days(days_given)
        made == <<ProviderCall("forecast", location)>>
    IN  IF exchange.status = "timeout" THEN Raised(httpx_error("timeout"), made)
        ELSE IF exchange.status = "404" THEN Value(not_found_text("forecast", location), made)
        ELSE IF exchange.status # "ok" THEN Raised(httpx_error(exchange.status), made)
        ELSE
        LET data == exchange.json
            failed == first_read_error(
                          data, << <<Key("city"), Key("name")>>, <<Key("city"), Key("country")>>,
                                   <<Key("list")>> >>)
        IN  IF failed # NoKeys THEN Raised(failed, made)
            ELSE
            LET lines == forecast_lines(one_per_day(data.list, days), "")
            IN  IF lines.raised THEN Raised(lines.exc, made)
                ELSE Value(
                    Pictograph("round_pushpin") \o " " \o ToString(days) \o "-day forecast for "
                    \o data.city.name \o ", " \o data.city.country \o ":\n\n" \o lines.value,
                    made)

get_forecast(location, days, exchange) ==
    fail_closed(get_forecast_try(location, days, exchange),
                "Error fetching forecast data: ",
                "Unexpected error getting forecast for " \o location \o ": ")

aqi_descriptions == <<"Good", "Fair", "Moderate", "Poor", "Very Poor">>

\* components.get(name, 'N/A') inside an f-string
component_text(components, name) ==
    IF Has(components, name) THEN decimal(components[name]) ELSE "N/A"

\* the subscripts get_air_pollution applies to the geocoding answer
coordinate_reads == << <<Index(0), Key("lat")>>, <<Index(0), Key("lon")>> >>

get_air_pollution_try(location, geo, air) ==
    LET geo_made == <<ProviderCall("geo/1.0/direct", location)>>
    IN  IF geo.status # "ok" THEN Raised(httpx_error(geo.status), geo_made)
        ELSE
        LET geo_data == geo.json
        IN  IF geo_data = <<>>
            THEN Value("Sorry, I couldn't find coordinates for '" \o location
                           \o "' to check air quality.", geo_made)
            ELSE
            LET located == first_read_error(geo_data, coordinate_reads)
            IN  IF located # NoKeys THEN Raised(located, geo_made)
                ELSE
                LET made == geo_made \o
                                <<CoordinateCall("air_pollution", geo_data[1].lat, geo_data[1].lon)>>
                IN  IF air.status # "ok" THEN Raised(httpx_error(air.status), made)
                    ELSE
                    LET air_data == air.json
                        failed == first_read_error(
                                      air_data,
                                      << <<Key("list"), Index(0), Key("main"), Key("aqi")>>,
                                         <<Key("list"), Index(0), Key("components")>> >>)
                    IN  IF failed # NoKeys THEN Raised(failed, made)
                        ELSE
                        LET aqi == air_data.list[1].main.aqi
                            components == air_data.list[1].components
                        IN  Value(
                            Pictograph("wind_face") \o " Air Quality in " \o location \o ":\n"
                            \o Pictograph("bar_chart") \o " AQI: " \o ToString(aqi) \o " ("
                            \o (IF aqi \in DOMAIN aqi_descriptions
                                THEN aqi_descriptions[aqi] ELSE "Unknown") \o ")\n"
                            \o Pictograph("factory") \o " CO: "
                            \o component_text(components, "co") \o " μg/m³\n"
                            \o Pictograph("fog") \o " PM2.5: "
                            \o component_text(components, "pm2_5") \o " μg/m³\n"
                            \o Pictograph("dash") \o " PM10: "
                            \o component_text(components, "pm10") \o " μg/m³",
                            made)

get_air_pollution(location, geo, air) ==
    fail_closed(get_air_pollution_try(location, geo, air),
                "Error fetching air quality data: ",
                "Unexpected error getting air quality for " \o location \o ": ")

(***************************************************************************)
(* Calls of the tools.  A tool keeps nothing between calls, so a behaviour *)
(* is one call, what the provider did during it, and its result.           *)
(***************************************************************************)
ToolCurrentBodies ==
    {[name |-> "Tokyo", sys |-> [country |-> "JP"],
      weather |-> <<[description |-> "scattered clouds"]>>,
      main |-> [temp |-> 285, feels_like |-> 275, humidity |-> 50],
      wind |-> [speed |-> 36]],
     [name |-> "Oslo", sys |-> [country |-> "NO"],
      weather |-> <<[description |-> "light SNOW"]>>,
      main |-> [temp |-> 0 - 15, feels_like |-> 0 - 46, humidity |-> 90],
      wind |-> [speed |-> 120]],
     [name |-> "Tokyo", sys |-> [country |-> "JP"],
      weather |-> <<[description |-> "clear sky"]>>,
      main |-> [temp |-> 181, feels_like |-> 179, humidity |-> 60]],
     [name |-> "Tokyo", sys |-> [country |-> "JP"],
      weather |-> <<>>,
      main |-> [temp |-> 181, feels_like |-> 179, humidity |-> 60],
      wind |-> [speed |-> 36]],
     [id |-> 1850147]}

\* the i-th three-hourly entry of a forecast that starts at midnight
ForecastEntry(i) ==
    [dt_txt |-> "2024-01-0" \o ToString((i - 1) \div IntervalsPerDay + 1) \o " "
                    \o ToString(3 * ((i - 1) % IntervalsPerDay)) \o ":00:00",
     main |-> [temp_min |-> 100 + 5 * i, temp_max |-> 145 + 5 * i],
     weather |-> <<[description |-> "light rain"]>>]

ForecastCity == [name |-> "Tokyo", country |-> "JP"]

FullForecastLength == MaxDays * IntervalsPerDay

ToolForecastBodies ==
    {[city |-> ForecastCity, list |-> [i \in 1..FullForecastLength |-> ForecastEntry(i)]],
     [city |-> ForecastCity, list |-> [i \in 1..(IntervalsPerDay + 1) |-> ForecastEntry(i)]],
     [city |-> ForecastCity, list |-> [i \in 1..FullForecastLength |-> ForecastEntry(1)]],
     [city |-> ForecastCity,
      list |-> [i \in 1..FullForecastLength |->
                   IF i <= IntervalsPerDay THEN ForecastEntry(i)
                   ELSE [dt_txt |-> "2024-01-02 00:00:00"]]],
     [city |-> ForecastCity,
      list |-> [i \in 1..FullForecastLength |->
                   IF i <= IntervalsPerDay THEN ForecastEntry(i) ELSE [dt_txt |-> " "]]],
     [city |-> ForecastCity, list |-> <<>>],
     [city |-> [name |-> "Tokyo"], list |-> <<>>],
     [cod |-> "200"]}

ToolGeoBodies ==
    {<<>>,
     <<[name |-> "Tokyo", lat |-> 357, lon |-> 1397]>>,
     <<[name |-> "Tokyo", lat |-> 357]>>}

ToolAirBodies ==
    {[list |-> <<[main |-> [aqi |-> 2],
                  components |-> [co |-> 2019, pm2_5 |-> 5, pm10 |-> 12]]>>],
     [list |-> <<[main |-> [aqi |-> 6], components |-> [co |-> 2019]]>>],
     [list |-> <<[main |-> [aqi |-> 5]]>>],
     [list |-> <<>>],
     [coord |-> [lon |-> 1397, lat |-> 357]]}

ToolLocations == {"Tokyo", "Zzzqx", ""}

DaysAsked == {0 - 1, 0, 1, 2, 3, 5, 6, 40}

Exchanges(bodies) == {HttpFail(f) : f \in HttpFailures} \cup {HttpOk(b) : b \in bodies}

\* a call of a tool with what the provider does during it; the air-pollution endpoint
\* is asked only after a geocoding answer with coordinates
CurrentWeatherCalls ==
    {[tool |-> "get_current_weather", location |-> l, exchange |-> x] :
        l \in ToolLocations, x \in Exchanges(ToolCurrentBodies)}

ForecastCalls ==
    {[tool |-> "get_forecast", location |-> l, days |-> d, exchange |-> x] :
        l \in ToolLocations, d \in DaysAsked, x \in Exchanges(ToolForecastBodies)}

AirPollutionCalls ==
    {[tool |-> "get_air_pollution", location |-> l, geo |-> x, air |-> HttpNotCalled] :
        l \in ToolLocations,
        x \in Exchanges({b \in ToolGeoBodies : first_read_error(b, coordinate_reads) # NoKeys})}
    \cup {[tool |-> "get_air_pollution", location |-> l, geo |-> HttpOk(b), air |-> y] :
        l \in ToolLocations,
        b \in {g \in ToolGeoBodies : first_read_error(g, coordinate_reads) = NoKeys},
        y \in Exchanges(ToolAirBodies)}

ToolCalls == CurrentWeatherCalls \cup ForecastCalls \cup AirPollutionCalls

InitTools ==
    /\ pc = "tool_called"
    /\ request \in ToolCalls
    /\ endpoint = "" /\ outcome = NoResult /\ calls = <<>>
    /\ ScorerIdle /\ TextIdle

ToolReturns(tool, result) ==
    /\ pc = "tool_called" /\ request.tool = tool
    /\ endpoint' = tool
    /\ outcome' = result.outcome
    /\ calls' = result.calls
    /\ pc' = "tool_returned"
    /\ UNCHANGED <<request, scorerVars, textVars>>

GetCurrentWeather ==
    ToolReturns("get_current_weather", get_current_weather(request.location, request.exchange))

GetForecast ==
    ToolReturns("get_forecast", get_forecast(request.location, request.days, request.exchange))

GetAirPollution ==
    ToolReturns("get_air_pollution",
                get_air_pollution(request.location, request.geo, request.air))

NextTools == GetCurrentWeather \/ GetForecast \/ GetAirPollution

SpecTools == InitTools /\ [][NextTools]_vars

(***************************************************************************)
(* Properties of the tools                                                 *)
(***************************************************************************)
ToolReturned(tool) == pc = "tool_returned" /\ endpoint = tool

CallsTo(op) == {i \in 1..Len(calls) : calls[i].op = op}

\* C17: every operation of FixedWeatherTools returns a text and never raises, whatever
\* the provider does (404, another error status, a timeout, a body that is no JSON, a
\* body with entries missing); a 404 from get_current_weather or get_forecast gives
\* the "couldn't find ... Please check the city name and try again" text for the
\* location; and get_air_pollution asks the air-pollution endpoint only after the
\* geocoding call succeeded with a non-empty result.
C17_ToolsFailClosed ==
    pc = "tool_returned" =>
        /\ outcome.kind = "returned"
        /\ outcome.body \in STRING
        /\ outcome.body # ""
        /\ endpoint \in {"get_current_weather", "get_forecast"} /\ request.exchange.status = "404" =>
               /\ Contains(outcome.body, "couldn't find")
               /\ Contains(outcome.body, "'" \o request.location \o "'")
               /\ Contains(outcome.body, "Please check the city name and try again")
        /\ \A i \in CallsTo("air_pollution") :
               /\ endpoint = "get_air_pollution"
               /\ request.geo.status = "ok"
               /\ request.geo.json # <<>>
               /\ \E j \in CallsTo("geo/1.0/direct") : j < i

\* get_current_weather asked about a place the provider does not know
C17_Witness ==
    /\ ToolReturned("get_current_weather")
    /\ request.location = "Zzzqx"
    /\ request.exchange.status = "404"
    /\ outcome.kind = "returned"
    /\ outcome.body = "Sorry, I couldn't find weather data for 'Zzzqx'. Please check the city name and try again."

\* a payload with an entry missing, a timeout, and an air-quality answer after geocoding
C17_WitnessIncomplete ==
    /\ ToolReturned("get_current_weather")
    /\ request.exchange.status = "ok" /\ ~Has(request.exchange.json, "wind")
    /\ Has(request.exchange.json, "main")
    /\ outcome.body = "Unexpected error getting weather for Tokyo: 'wind'"

C17_WitnessTimeout ==
    /\ ToolReturned("get_forecast")
    /\ request.exchange.status = "timeout"
    /\ outcome.body = "Error fetching forecast data: timed out"

C17_WitnessAir ==
    /\ ToolReturned("get_air_pollution")
    /\ CallsTo("geo/1.0/direct") = {1} /\ CallsTo("air_pollution") = {2}
    /\ request.air.status = "ok"
    /\ Contains(outcome.body, "AQI: 2 (Fair)")
    /\ Contains(outcome.body, "CO: 201.9")

C17_WitnessForecast ==
    /\ ToolReturned("get_forecast")
    /\ request.days = 40 /\ request.location = "Tokyo"
    /\ request.exchange.status = "ok"
    /\ Contains(outcome.body, "5-day forecast for Tokyo, JP")
    /\ Contains(outcome.body, "2024-01-05: ")
    /\ Contains(outcome.body, "Light Rain")

====
